---- MODULE Spec2Model ----
(***************************************************************************)
(* A model of extract_features.py: the feature extraction of one table     *)
(* fragment (get_table_features, is_word_in, predict_is_table) and the     *)
(* batch loop that runs it over every discovered fragment and joins the    *)
(* records to the fragment identifiers.                                    *)
(*                                                                         *)
(* A Python str is a sequence of one-character strings.  The character     *)
(* ARABIC-INDIC DIGIT THREE / FOUR (a decimal digit that is not ASCII) is  *)
(* written "U+0663" / "U+0664" and stands for one character.               *)
(* A float that the code obtains by a division is kept as the exact        *)
(* fraction [num, den]; the comparisons against 0.1 and 5 are made on the  *)
(* fractions (for the cell and character counts a fragment can have, the   *)
(* correctly rounded quotient compares to the double 0.1 as the fraction   *)
(* compares to 1/10).                                                      *)
(***************************************************************************)
EXTENDS Integers, Sequences, FiniteSets, TLC

VARIABLES
    pc,            \* position in the script / in the function under test
    files,         \* glob.glob(...) result: the discovered file names
    disk,          \* content of the file at each path the loop opens
    tables,        \* the DataFrame `tables` (its rows, index = position)
    i,             \* number of rows of `tables` the for loop has consumed
    feature_list,  \* the list `feature_list`
    log,           \* fragments reported by logging.exception
    csv,           \* function under test: the csv records handed to read_csv
    query,         \* function under test: the arguments of is_word_in
    result         \* function under test: what the call returned or raised

vars == <<pc, files, disk, tables, i, feature_list, log, csv, query, result>>

----------------------------------------------------------------------------
(* Characters and the str methods the code uses.                           *)

AsciiDigits == {"0", "1", "2", "3", "4", "5", "6", "7", "8", "9"}

\* Decimal digits outside ASCII (Unicode category Nd).
UnicodeDigits == {"U+0663", "U+0664"}

UpperSeq == <<"A", "B", "C", "D", "E", "F", "G", "H", "I", "J", "K", "L", "M",
              "N", "O", "P", "Q", "R", "S", "T", "U", "V", "W", "X", "Y", "Z">>

LowerSeq == <<"a", "b", "c", "d", "e", "f", "g", "h", "i", "j", "k", "l", "m",
              "n", "o", "p", "q", "r", "s", "t", "u", "v", "w", "x", "y", "z">>

Range(s) == {s[k] : k \in 1..Len(s)}

Letters == Range(UpperSeq) \cup Range(LowerSeq)

\* str.split() without argument and str.strip() treat these as whitespace;
\* so does the regex class \s.
Whitespace == {" ", "\t"}

UpperLetters == Range(UpperSeq)

\* str.lower() on one character.
LowerChar(ch) ==
    IF ch \in UpperLetters
    THEN LowerSeq[CHOOSE k \in 1..Len(UpperSeq) : UpperSeq[k] = ch]
    ELSE ch

\* str.lower()
Lower(s) == [k \in 1..Len(s) |-> LowerChar(s[k])]

\* The Python str as a TLA+ string (used for dictionary keys).
RECURSIVE Str(_)
Str(s) == IF s = <<>> THEN "" ELSE Head(s) \o Str(Tail(s))

\* len(c.split()): the number of maximal runs of non-whitespace characters.
SplitCount(c) ==
    Cardinality({k \in 1..Len(c) :
        /\ c[k] \notin Whitespace
        /\ (k = 1 \/ c[k - 1] \in Whitespace)})

\* c.strip() == ''
StripIsEmpty(c) == \A k \in 1..Len(c) : c[k] \in Whitespace

RECURSIVE SumSeq(_)
SumSeq(s) == IF s = <<>> THEN 0 ELSE Head(s) + SumSeq(Tail(s))

RECURSIVE Flatten(_)
Flatten(ss) == IF ss = <<>> THEN <<>> ELSE Head(ss) \o Flatten(Tail(ss))

SeqMin(s) == CHOOSE m \in Range(s) : \A x \in Range(s) : m <= x
SeqMax(s) == CHOOSE m \in Range(s) : \A x \in Range(s) : m >= x

----------------------------------------------------------------------------
(* The regular expressions of the code (module re, str patterns).          *)

DecimalDigits == AsciiDigits \cup UnicodeDigits

WordChars == Letters \cup DecimalDigits \cup {"_"}

\* \d of a str pattern: any Unicode decimal digit.
IsDigit(ch) == ch \in DecimalDigits

\* \w of a str pattern: letters, decimal digits and the underscore.
IsWordChar(ch) == ch \in WordChars

\* \b at offset pos (0..len) of c: exactly one of the characters on the two
\* sides is a word character; outside the string counts as a non-word.
AtBoundary(c, pos) ==
    LET before == pos >= 1 /\ IsWordChar(c[pos])
        after  == pos < Len(c) /\ IsWordChar(c[pos + 1])
    IN  before # after

\* re.compile: the pattern text as a sequence of tokens.  A backslash takes
\* the next character: \b is the boundary assertion, \s the whitespace
\* class; every other character of the patterns used is a literal.
RECURSIVE Compile(_)
Compile(p) ==
    IF p = <<>> THEN <<>>
    ELSE IF Head(p) = "\\" /\ Len(p) >= 2
         THEN <<[kind |-> IF p[2] = "b" THEN "boundary"
                          ELSE IF p[2] = "s" THEN "space"
                          ELSE "literal",
                 ch |-> p[2]]>> \o Compile(SubSeq(p, 3, Len(p)))
         ELSE <<[kind |-> "literal", ch |-> Head(p)]>> \o Compile(Tail(p))

\* One literal against one character, under re.IGNORECASE or not.
LiteralMatches(pch, ch, ignorecase) ==
    IF ignorecase THEN LowerChar(pch) = LowerChar(ch) ELSE pch = ch

\* Whether the token sequence toks matches c starting at offset pos.
RECURSIVE MatchAt(_, _, _, _)
MatchAt(toks, c, pos, ignorecase) ==
    IF toks = <<>> THEN TRUE
    ELSE LET t == Head(toks) IN
         IF t.kind = "boundary"
         THEN AtBoundary(c, pos) /\ MatchAt(Tail(toks), c, pos, ignorecase)
         ELSE /\ pos < Len(c)
              /\ IF t.kind = "space"
                 THEN c[pos + 1] \in Whitespace
                 ELSE LiteralMatches(t.ch, c[pos + 1], ignorecase)
              /\ MatchAt(Tail(toks), c, pos + 1, ignorecase)

\* pattern.finditer(c) yields at least one match: scan the offsets left to
\* right and stop at the first one where the pattern matches.
RECURSIVE FindFrom(_, _, _, _)
FindFrom(toks, c, pos, ignorecase) ==
    IF pos > Len(c) THEN FALSE
    ELSE IF MatchAt(toks, c, pos, ignorecase) THEN TRUE
    ELSE FindFrom(toks, c, pos + 1, ignorecase)

\* A pattern text that never closes with \b.
PatternNoEnd(word, match_end) == <<"\\", "b">> \o word

\* Line 35: the pattern text built by str.format.
PatternText(word, match_end) ==
    <<"\\", "b">> \o word \o (IF match_end THEN <<"\\", "b">> ELSE <<>>)

\* Lines 38-41: the loop over the cells, returning at the first match.
RECURSIVE ScanCells(_, _, _)
ScanCells(toks, cells, ignorecase) ==
    IF cells = <<>> THEN FALSE
    ELSE IF FindFrom(toks, Head(cells), 0, ignorecase) THEN TRUE
    ELSE ScanCells(toks, Tail(cells), ignorecase)

is_word_in(word, cells, case_sensitive, match_end) ==
    LET pattern == PatternText(word, match_end)
        ignorecase == ~case_sensitive
    IN  ScanCells(Compile(pattern), cells, ignorecase)

\* re.findall(r'\d+', c) as the lengths of the matches: from offset pos,
\* skip to the next digit, take digits greedily, and go on after the run.
RECURSIVE DigitRunEnd(_, _)
DigitRunEnd(c, pos) ==
    IF pos < Len(c) /\ IsDigit(c[pos + 1]) THEN DigitRunEnd(c, pos + 1) ELSE pos

RECURSIVE FindallDigits(_, _)
FindallDigits(c, pos) ==
    IF pos >= Len(c) THEN <<>>
    ELSE IF IsDigit(c[pos + 1])
         THEN LET e == DigitRunEnd(c, pos)
              IN  <<e - pos>> \o FindallDigits(c, e)
         ELSE FindallDigits(c, pos + 1)

----------------------------------------------------------------------------
(* collections.OrderedDict as a sequence of [key, value] entries.          *)

HasKey(d, k) == \E j \in 1..Len(d) : d[j].key = k

KeyIndex(d, k) == CHOOSE j \in 1..Len(d) : d[j].key = k

\* d[k]
Get(d, k) == d[KeyIndex(d, k)].value

\* d[k] = v: a new key goes to the end, a known key keeps its place.
Put(d, k, v) ==
    IF HasKey(d, k)
    THEN [d EXCEPT ![KeyIndex(d, k)] = [key |-> k, value |-> v]]
    ELSE Append(d, [key |-> k, value |-> v])

Keys(d) == [j \in 1..Len(d) |-> d[j].key]

\* The one element of a one-element set.  Only({e(x) : x \in {v}}) is
\* e(v) with v evaluated once, as an assignment x = v evaluates it.
Only(S) == CHOOSE x \in S : TRUE

PutAllOf(d, es) ==
    LET last(k) == es[CHOOSE j \in 1..Len(es) :
                        /\ es[j].key = k
                        /\ \A m \in (j + 1)..Len(es) : es[m].key # k]
        isNew(j) == /\ ~HasKey(d, es[j].key)
                    /\ \A m \in 1..(j - 1) : es[m].key # es[j].key
        places == SelectSeq([j \in 1..Len(es) |-> j], isNew)
    IN  [j \in 1..Len(d) |-> IF HasKey(es, d[j].key) THEN last(d[j].key) ELSE d[j]]
        \o [n \in 1..Len(places) |-> last(es[places[n]].key)]

\* The assignments d[e.key] = e.value for the entries e of es, in order:
\* a key d has keeps its place and takes the last value assigned to it; the
\* other keys follow in the order of their first assignment.
PutAll(d0, es0) == Only({PutAllOf(d, es) : d \in {d0}, es \in {es0}})

Without(d, k) == SelectSeq(d, LAMBDA e : e.key # k)

\* A move_to_end that always moves to the right end.
move_to_end_right(d, k, last) == Without(d, k) \o <<d[KeyIndex(d, k)]>>

\* OrderedDict.move_to_end(k, last)
move_to_end(d, k, last) ==
    IF last THEN Without(d, k) \o <<d[KeyIndex(d, k)]>>
    ELSE <<d[KeyIndex(d, k)]>> \o Without(d, k)

----------------------------------------------------------------------------
(* read_csv and the DataFrame it returns.  A file is either absent or a    *)
(* sequence of csv records, each a non-empty sequence of fields.  A        *)
(* DataFrame is kept column by column, as df.items() walks it.             *)

Raised(err) == [raised |-> TRUE, error |-> err, value |-> <<>>]

Returned(v) == [raised |-> FALSE, error |-> "", value |-> v]

NoFile == [exists |-> FALSE, records |-> <<>>]

FileOf(records) == [exists |-> TRUE, records |-> records]

\* pd.read_csv(file, header=None, dtype=str).fillna(''): the first record
\* fixes the number of columns; a longer record later is a parser error, a
\* shorter one is filled with NaN, which fillna turns into ''.
read_csv(file) ==
    IF ~file.exists THEN Raised("FileNotFoundError")
    ELSE IF file.records = <<>> THEN Raised("EmptyDataError")
    ELSE LET recs == file.records
             n == Len(recs[1])
         IN  IF \E r \in 1..Len(recs) : Len(recs[r]) > n
             THEN Raised("ParserError")
             ELSE Returned([ncols |-> n,
                            nrows |-> Len(recs),
                            cols |-> [j \in 1..n |-> [r \in 1..Len(recs) |->
                                IF j <= Len(recs[r]) THEN recs[r][j]
                                ELSE <<>>]]])

----------------------------------------------------------------------------
(* get_table_features                                                      *)

\* Line 47
CellsOf(df) == Flatten(df.cols)

\* Line 48
words_count_by_cell(cells) == [k \in 1..Len(cells) |-> SplitCount(cells[k])]

NaN == "nan"

Fraction(n, d) == [num |-> n, den |-> d]

\* len(df) in the place of len(df.columns)
columns_swapped(df) == df.nrows

\* Line 50
columns(df) == df.ncols

\* Line 51
rows(df) == df.nrows

\* Lines 52-54: Series.min / mean / max, NaN on an empty Series.
cell_words_min(wc) == IF wc = <<>> THEN NaN ELSE SeqMin(wc)

cell_words_mean(wc) == IF wc = <<>> THEN NaN ELSE Fraction(SumSeq(wc), Len(wc))

cell_words_max(wc) == IF wc = <<>> THEN NaN ELSE SeqMax(wc)

\* Line 55
empty_cells(cells) == Cardinality({k \in 1..Len(cells) : StripIsEmpty(cells[k])})

\* Line 56
total_words(cells) == SumSeq([k \in 1..Len(cells) |-> SplitCount(cells[k])])

\* A character count that leaves whitespace out.
total_chars_no_space(cells) ==
    SumSeq([k \in 1..Len(cells) |->
        Cardinality({p \in 1..Len(cells[k]) : cells[k][p] \notin Whitespace})])

\* Line 57
total_chars(cells) == SumSeq([k \in 1..Len(cells) |-> Len(cells[k])])

\* Line 58: char in '0123456789'
total_digits(cells) ==
    SumSeq([k \in 1..Len(cells) |->
        Cardinality({p \in 1..Len(cells[k]) : cells[k][p] \in AsciiDigits})])

\* Lines 49-59
StructuralFeatures(df, cells) ==
    LET wc == words_count_by_cell(cells) IN
    << [key |-> "columns",         value |-> columns(df)],
       [key |-> "rows",            value |-> rows(df)],
       [key |-> "cell_words_min",  value |-> cell_words_min(wc)],
       [key |-> "cell_words_mean", value |-> cell_words_mean(wc)],
       [key |-> "cell_words_max",  value |-> cell_words_max(wc)],
       [key |-> "empty_cells",     value |-> empty_cells(cells)],
       [key |-> "total_words",     value |-> total_words(cells)],
       [key |-> "total_chars",     value |-> total_chars(cells)],
       [key |-> "total_digits",    value |-> total_digits(cells)] >>

\* Lines 62-88
words ==
    << <<<<"a", "g", "e">>, FALSE, TRUE>>,
       <<<<"d", "a", "t", "e">>, FALSE, TRUE>>,
       <<<<"y", "e", "a", "r">>, FALSE, FALSE>>,
       <<<<"B", "P">>, TRUE, TRUE>>,
       <<<<"B", "C">>, TRUE, TRUE>>,
       <<<<"A", "D">>, FALSE, TRUE>>,
       <<<<"K", "a">>, TRUE, TRUE>>,
       <<<<"C", "A", "L">>, FALSE, TRUE>>,
       <<<<"p", "a", "i", "n", "t", "i", "n", "g">>, FALSE, FALSE>>,
       <<<<"d", "r", "a", "w", "i", "n", "g">>, FALSE, FALSE>>,
       <<<<"e", "n", "g", "r", "a", "v", "i", "n", "g">>, FALSE, FALSE>>,
       <<<<"p", "i", "c", "t", "o", "g", "r", "a", "p", "h">>, FALSE, FALSE>>,
       <<<<"p", "e", "t", "r", "o", "g", "l", "y", "p", "h">>, FALSE, FALSE>>,
       <<<<"A", "M", "S">>, TRUE, TRUE>>,
       <<<<"U", "r", "a", "n", "i", "u", "m", "\\", "s",
           "s", "e", "r", "i", "e">>, FALSE, FALSE>>,
       <<<<"R", "a", "d", "i", "o", "c", "a", "r", "b", "o", "n">>, FALSE, TRUE>>,
       <<<<"R", "C", "1", "4">>, FALSE, TRUE>>,
       <<<<"c", "h", "a", "r", "c", "o", "a", "l">>, FALSE, TRUE>>,
       <<<<"p", "i", "g", "m", "e", "n", "t">>, FALSE, FALSE>>,
       <<<<"c", "a", "l", "c", "i", "t", "e">>, FALSE, FALSE>>,
       <<<<"b", "e", "e", "s", "w", "a", "x">>, FALSE, TRUE>>,
       <<<<"v", "a", "r", "n", "i", "s", "h">>, FALSE, TRUE>>,
       <<<<"b", "o", "n", "e">>, FALSE, FALSE>>,
       <<<<"c", "a", "v", "e">>, FALSE, FALSE>>,
       <<<<"s", "i", "t", "e">>, FALSE, FALSE>> >>

\* Line 91: re.sub(r'\\.', '_', word_name): a backslash and the character
\* after it become one underscore.
RECURSIVE SubEscapes(_)
SubEscapes(s) ==
    IF s = <<>> THEN <<>>
    ELSE IF Head(s) = "\\" /\ Len(s) >= 2
         THEN <<"_">> \o SubEscapes(SubSeq(s, 3, Len(s)))
         ELSE <<Head(s)>> \o SubEscapes(Tail(s))

\* Lines 90-92
WordFeatureName(word, case_sensitive, match_end) ==
    LET word_name == SubEscapes(IF case_sensitive THEN word ELSE Lower(word))
    IN  "w_" \o (IF case_sensitive THEN "cs" ELSE "ci") \o "_"
             \o (IF match_end THEN "e" ELSE "ne") \o "_" \o Str(word_name)

\* Lines 89-93: the assignments the loop over the catalog makes, in order.
WordEntries(cells) ==
    [k \in 1..Len(words) |->
        [key |-> WordFeatureName(words[k][1], words[k][2], words[k][3]),
         value |-> is_word_in(words[k][1], cells, words[k][2], words[k][3])]]

\* Line 95: the Counter, kept as the sequence of the lengths counted.
digit_word_len_count(cells) ==
    Flatten([k \in 1..Len(cells) |-> FindallDigits(cells[k], 0)])

\* A lookup that also counts the longer runs.
CounterGetAtLeast(counter, length) ==
    Cardinality({k \in 1..Len(counter) : counter[k] >= length})

\* Line 98: Counter.get(length, 0)
CounterGet(counter, length) ==
    Cardinality({k \in 1..Len(counter) : counter[k] = length})

\* Line 97
DigitFeatureName(length) ==
    "digit_of_len_" \o (<<"0", "1", "2", "3", "4", "5", "6", "7", "8", "9">>)[length + 1]

\* range(a, b)
RangeList(a, b) == [n \in 1..(b - a) |-> a + n - 1]

\* Lines 96-98: the assignments the loop over range(2, 5 + 1) makes.
DigitEntries(counter) ==
    LET lengths == RangeList(2, 5 + 1) IN
    [n \in 1..Len(lengths) |->
        [key |-> DigitFeatureName(lengths[n]),
         value |-> CounterGet(counter, lengths[n])]]

\* a > n/d and a < n/d for a fraction a with a positive denominator
FracGt(a, n, d) == a.num * d > n * a.den

FracLt(a, n, d) == a.num * d < n * a.den

\* A rule whose comparisons are not strict.
predict_is_table_not_strict(s) ==
    /\ ~FracLt(Get(s, "digits_perc"), 1, 10)
    /\ ~FracGt(Get(s, "cell_words_mean"), 5, 1)

\* Lines 43-44: digits_perc > 0.1 and cell_words_mean < 5
predict_is_table(s) ==
    /\ FracGt(Get(s, "digits_perc"), 1, 10)
    /\ FracLt(Get(s, "cell_words_mean"), 5, 1)

\* Lines 60-102 on the features of lines 49-59.  Line 60 divides two
\* Python ints: a zero total_chars raises ZeroDivisionError and the
\* function returns nothing.
FeaturesFrom(f1, cells) ==
    IF Get(f1, "total_chars") = 0 THEN Raised("ZeroDivisionError")
    ELSE Only({Returned(move_to_end(Put(f4, "is_table", predict_is_table(f4)),
                                    "is_table", FALSE)) :
               f4 \in {PutAll(PutAll(Put(f1, "digits_perc",
                                         Fraction(Get(f1, "total_digits"),
                                                  Get(f1, "total_chars"))),
                                     WordEntries(cells)),
                              DigitEntries(digit_word_len_count(cells)))}})

\* Lines 46-102
get_table_features(df) ==
    Only({Only({FeaturesFrom(f1, cells) : f1 \in {StructuralFeatures(df, cells)}}) :
          cells \in {CellsOf(df)}})

\* Lines 123-124, the part of the try body that can raise: the load and
\* the extraction of one file.
ExtractFile(file) ==
    Only({IF df.raised THEN df ELSE get_table_features(df.value) :
          df \in {read_csv(file)}})


----------------------------------------------------------------------------
(* File names.  A discovered name is kept as the parts get_table_parts     *)
(* reads: the article directory and the two fields of the base name        *)
(* page.<page>.table.<table>.csv, each a string of ASCII digits.           *)

DigitSeq == <<"0", "1", "2", "3", "4", "5", "6", "7", "8", "9">>

DigitValue(ch) == (CHOOSE k \in 1..Len(DigitSeq) : DigitSeq[k] = ch) - 1

\* int(text) for a text of ASCII digits
RECURSIVE ParseInt(_)
ParseInt(s) ==
    IF s = <<>> THEN 0
    ELSE 10 * ParseInt(SubSeq(s, 1, Len(s) - 1)) + DigitValue(s[Len(s)])

\* '{:d}'.format(n), n >= 0
RECURSIVE Decimal(_)
Decimal(n) ==
    IF n < 10 THEN <<DigitSeq[n + 1]>>
    ELSE Decimal(n \div 10) \o <<DigitSeq[(n % 10) + 1]>>

\* '{:0<width>d}'.format(n): zeros on the left up to width, never cut.
RECURSIVE ZeroPad(_, _)
ZeroPad(s, width) == IF Len(s) >= width THEN s ELSE ZeroPad(<<"0">> \o s, width)

\* Lines 22-26
get_table_parts(file) ==
    [article |-> file.article, page |-> ParseInt(file.page), table |-> ParseInt(file.table)]

\* Lines 28-29
get_table_file(article, page, table) ==
    [article |-> article,
     page |-> ZeroPad(Decimal(page), 3),
     table |-> ZeroPad(Decimal(table), 2)]

\* The path the loop opens for a discovered file (lines 116 and 122).
OpenedPath(file) ==
    LET t == get_table_parts(file) IN get_table_file(t.article, t.page, t.table)

----------------------------------------------------------------------------
(* The inputs of the batch: what glob can find and what the files hold.    *)

MaxFragments == 3

FileNames ==
    { [article |-> "artA", page |-> <<"0", "0", "1">>, table |-> <<"0", "1">>],
      [article |-> "artA", page |-> <<"1">>,           table |-> <<"0", "1">>],
      [article |-> "artA", page |-> <<"0", "1", "2">>, table |-> <<"0", "2">>],
      [article |-> "artB", page |-> <<"0", "0", "1">>, table |-> <<"0", "1">>] }

BatchFiles ==
    { NoFile,
      FileOf(<<>>),
      FileOf(<< <<<<>>, <<>>>> >>),
      FileOf(<< <<<<"1", "2">>, <<"a", " ", "b">>>> >>),
      FileOf(<< <<<<"7", " ", "B", "P">>>>, <<<<"x">>>> >>) }

\* ExtractFile on each file of the batch (the call is a pure function of
\* the file's content).
Extracted == [f \in BatchFiles |-> ExtractFile(f)]

\* The sequences of pairwise distinct elements of S of length n.
DistinctSeqs(S, n) ==
    {s \in [1..n -> S] : \A a, b \in 1..n : a # b => s[a] # s[b]}

None == "none"

BatchInit ==
    /\ pc = "parse"
    /\ files \in UNION {DistinctSeqs(FileNames, n) : n \in 0..MaxFragments}
    /\ disk \in [{OpenedPath(files[k]) : k \in 1..Len(files)} -> BatchFiles]
    /\ tables = <<>>
    /\ i = 0
    /\ feature_list = <<>>
    /\ log = <<>>
    /\ csv = None
    /\ query = None
    /\ result = None

----------------------------------------------------------------------------
(* The script, lines 115-130.                                              *)

\* Line 116: one row of identifiers per discovered file.
ParseNames ==
    /\ pc = "parse"
    /\ tables' = [k \in 1..Len(files) |-> get_table_parts(files[k])]
    /\ pc' = "loop"
    /\ UNCHANGED <<files, disk, i, feature_list, log, csv, query, result>>

\* The file the iteration on row i + 1 opens (line 122).
CurrentFile ==
    LET t == tables[i + 1] IN disk[get_table_file(t.article, t.page, t.table)]

\* Lines 120-125: an iteration whose try body runs to its end.
LoopAppend ==
    /\ pc = "loop"
    /\ i < Len(tables)
    /\ ~Extracted[CurrentFile].raised
    /\ feature_list' = Append(feature_list, Extracted[CurrentFile].value)
    /\ i' = i + 1
    /\ UNCHANGED <<pc, files, disk, tables, log, csv, query, result>>

\* A handler that gives the loop up.
LoopExceptBreak ==
    /\ pc = "loop"
    /\ i < Len(tables)
    /\ Extracted[CurrentFile].raised
    /\ log' = Append(log, tables[i + 1])
    /\ i' = Len(tables)
    /\ UNCHANGED <<pc, files, disk, tables, feature_list, csv, query, result>>

\* Lines 120-127: an iteration whose try body raises; the bare except
\* logs the fragment and the loop goes on.
LoopExcept ==
    /\ pc = "loop"
    /\ i < Len(tables)
    /\ Extracted[CurrentFile].raised
    /\ log' = Append(log, tables[i + 1])
    /\ i' = i + 1
    /\ UNCHANGED <<pc, files, disk, tables, feature_list, csv, query, result>>

\* pd.DataFrame(feature_list) and pd.concat([tables, features_df], axis=1):
\* the two frames are joined on their index labels, 0..len-1 each, so row k
\* of the result holds row k of tables beside row k of features_df, and
\* the cells of a row features_df does not have are missing.
Concatenated(ids, records) ==
    [k \in 1..Len(ids) |->
        [article |-> ids[k].article, page |-> ids[k].page, table |-> ids[k].table,
         has_features |-> k <= Len(records),
         features |-> IF k <= Len(records) THEN records[k] ELSE <<>>]]

\* Lines 120 and 129-130: the loop is exhausted, the frames are joined.
Concat ==
    /\ pc = "loop"
    /\ i = Len(tables)
    /\ tables' = Concatenated(tables, feature_list)
    /\ pc' = "done"
    /\ UNCHANGED <<files, disk, i, feature_list, log, csv, query, result>>

Next == ParseNames \/ LoopAppend \/ LoopExcept \/ Concat

Spec == BatchInit /\ [][Next]_vars

\* The script is one sequential run: a statement that can run does run.
FairSpec == Spec /\ WF_vars(Next)


----------------------------------------------------------------------------
(* The functions on their own: get_table_features on the DataFrame read    *)
(* from given csv records, and is_word_in on given arguments.              *)

MaxCells == 3

MaxQueryCells == 2

CoreCells ==
    { <<>>,
      <<" ">>,
      <<"1", "2">>,
      <<"a", " ", "b">>,
      <<"U+0663", "7">> }

\* The rows of 1..n fields over CoreCells.
RowsUpTo(n) == UNION {[1..k -> CoreCells] : k \in 1..n}

\* The csv record sequences of at most n fields in all.
RECURSIVE CsvsWithin(_)
CsvsWithin(n) ==
    {<<>>} \cup UNION {{<<row>> \o rest : rest \in CsvsWithin(n - Len(row))} :
                        row \in RowsUpTo(n)}

ExampleCsvs ==
    { << <<<<"1", "2", "3", "4">>, <<"t", "e", "x", "t", " ", "h", "e", "r", "e">>>>,
         <<<<"5", "6", "7", "8">>, <<"a", " ", "b", " ", "c", " ", "d", " ", "e", " ", "f">>>> >>,
      << <<<<"1", "2">>, <<"1", "2", "3", "4", "5">>, <<"7">>>> >>,
      << <<<<"1", "2", "3", "4", "5", "6">>>> >>,
      << <<<<"1", "2", "3", "4", "5", "6", "7", " ", "8", "9", " ", "x", "1", "2", "3">>, <<"U+0663", "U+0664", "U+0663", " ", "1", "2", "U+0663">>>> >>,
      << <<<<"1", " ", "a", " ", "a", " ", "a", " ", "a", "a">>>> >>,
      << <<<<"1", "a", "a", "a", "a", "a", "a", "a", "a", "a">>>> >>,
      << <<<<"1", " ", "a", " ", "a", " ", "a", " ", "a">>>> >>,
      << <<<<"1", " ", "a", " ", "a", " ", "a">>>> >>,
      << <<<<"1", "1", " ", "a", " ", "a", " ", "a">>, <<"a", " ", "a", " ", "a", " ", "a", " ", "a", " ", "a">>>> >>,
      << <<<<"1", "2", "0", "0", "0", " ", "B", "P">>, <<"U", "r", "a", "n", "i", "u", "m", "\t", "s", "e", "r", "i", "e", "s">>>>,
         <<<<"A", "g", "e", ":", " ", "3", " ", "k", "a">>, <<"s", "i", "t", "e">>>> >> }

CsvInputs == CsvsWithin(MaxCells) \cup ExampleCsvs

QueryWords == { <<"B", "P">>, <<"a", "g", "e">> }

QueryCells ==
    { <<"1", "2", "0", "0", "0", " ", "B", "P">>,
      <<"1", "2", "0", "0", "0", " ", "b", "p">>,
      <<"B", "P", "x">>,
      <<"a", "g", "e", "s">>,
      <<"A", "g", "e", ":">>,
      <<>>,
      <<"x", "B", "P">>,
      <<"c", "a", "g", "e">>,
      <<"A", "n", " ", "a", "g", "e">> }

Queries ==
    [word : QueryWords,
     case_sensitive : BOOLEAN,
     match_end : BOOLEAN,
     cells : UNION {[1..n -> QueryCells] : n \in 0..MaxQueryCells}]

FeatInit ==
    /\ \/ pc = "call_features" /\ csv \in CsvInputs /\ query = None
       \/ pc = "call_match" /\ csv = None /\ query \in Queries
    /\ files = <<>>
    /\ disk = <<>>
    /\ tables = <<>>
    /\ i = 0
    /\ feature_list = <<>>
    /\ log = <<>>
    /\ result = None

\* Lines 123-124 on one file.
CallFeatures ==
    /\ pc = "call_features"
    /\ result' = ExtractFile(FileOf(csv))
    /\ pc' = "returned_features"
    /\ UNCHANGED <<files, disk, tables, i, feature_list, log, csv, query>>

\* Lines 34-41 on one argument list.
CallMatch ==
    /\ pc = "call_match"
    /\ result' = is_word_in(query.word, query.cells, query.case_sensitive, query.match_end)
    /\ pc' = "returned_match"
    /\ UNCHANGED <<files, disk, tables, i, feature_list, log, csv, query>>

FeatNext == CallFeatures \/ CallMatch

FeatSpec == FeatInit /\ [][FeatNext]_vars


----------------------------------------------------------------------------
(* The batch loop: claims C1, C2, C3.                                      *)

\* What load and extraction give for row k of tables.
OutcomeOfRow(k) ==
    Extracted[disk[get_table_file(tables[k].article, tables[k].page, tables[k].table)]]

FailedRows == {k \in 1..Len(tables) : OutcomeOfRow(k).raised}

\* The records of the rows k..Len(tables) that do not fail, in row order.
RECURSIVE RecordsFrom(_)
RecordsFrom(k) ==
    IF k > Len(tables) THEN <<>>
    ELSE IF OutcomeOfRow(k).raised THEN RecordsFrom(k + 1)
    ELSE <<OutcomeOfRow(k).value>> \o RecordsFrom(k + 1)

\* C1: in the output dataset every row that carries feature values carries
\* the identifier of the fragment whose grid those features were computed
\* from: the features beside an identifier are the ones load and
\* extraction give for that identifier's file.
C1_RowsCarryOwnFeatures ==
    pc = "done" =>
        \A k \in 1..Len(tables) :
            tables[k].has_features =>
                /\ ~OutcomeOfRow(k).raised
                /\ tables[k].features = OutcomeOfRow(k).value

\* C2: the output dataset has exactly one row per fragment whose load and
\* extraction both succeeded, so its row count is the number of input
\* fragments minus the number of failures, and no failed fragment has a row.
C2_OneRowPerSuccess ==
    pc = "done" =>
        /\ Len(tables) = Len(files) - Cardinality(FailedRows)
        /\ \A k \in 1..Len(tables) : tables[k].has_features

\* C3: the loop visits every fragment exactly once in input order (each
\* iteration consumes the next row), a failing iteration leaves the
\* accumulated list unchanged, a succeeding one appends that row's record,
\* the loop reaches its terminal state, and there the list holds the record
\* of every fragment that did not fail, whatever failed before it.
C3_LoopCompletes ==
    /\ [][(pc = "loop" /\ i < Len(tables)) =>
            /\ i' = i + 1
            /\ tables' = tables
            /\ IF OutcomeOfRow(i + 1).raised
               THEN feature_list' = feature_list
               ELSE feature_list' = Append(feature_list, OutcomeOfRow(i + 1).value)]_vars
    /\ [](pc = "done" =>
            /\ i = Len(files)
            /\ feature_list = RecordsFrom(1)
            /\ Len(log) = Cardinality(FailedRows))
    /\ <>(pc = "done")

\* A finished batch in which a fragment failed and a later one succeeded.
C3_Witness ==
    /\ pc = "done"
    /\ \E a, b \in 1..Len(tables) :
          a < b /\ OutcomeOfRow(a).raised /\ ~OutcomeOfRow(b).raised
    /\ Len(feature_list) >= 1
    /\ Len(feature_list) < Len(tables)

----------------------------------------------------------------------------
(* get_table_features and is_word_in: claims C4 to C10.                    *)

FeaturesReturned == pc = "returned_features" /\ ~result.raised

Field(name) == Get(result.value, name)

\* C4: on every grid on which get_table_features returns, is_table is true
\* exactly when digits_perc > 0.1 and cell_words_mean < 5, both strict, that
\* is when 10 * total_digits > total_chars and total_words < 5 * cell count.
C4_IsTableRule ==
    FeaturesReturned =>
        /\ Field("is_table") =
              (/\ 10 * Field("total_digits") > Field("total_chars")
               /\ Field("total_words") < 5 * Field("rows") * Field("columns"))
        /\ Field("is_table") =
              (/\ 10 * Field("digits_perc").num > Field("digits_perc").den
               /\ Field("cell_words_mean").num < 5 * Field("cell_words_mean").den)

\* digits_perc is exactly 0.1, the words are few, and is_table is false.
C4_Witness ==
    /\ FeaturesReturned
    /\ 10 * Field("total_digits") = Field("total_chars")
    /\ Field("total_words") < 5 * Field("rows") * Field("columns")
    /\ Field("is_table") = FALSE

\* The DataFrame of the csv under test has cells and no character in them.
ZeroCharGrid ==
    /\ ~read_csv(FileOf(csv)).raised
    /\ \A c \in Range(CellsOf(read_csv(FileOf(csv)).value)) : c = <<>>

\* C5: on a grid whose cells hold zero characters in total
\* get_table_features does not fail: it returns a record that has a
\* digits_perc field and whose is_table is false.
C5_ZeroCharsReturnsRecord ==
    (pc = "returned_features" /\ ZeroCharGrid) =>
        /\ ~result.raised
        /\ HasKey(result.value, "digits_perc")
        /\ Field("is_table") = FALSE

C6Grid ==
    << <<<<"1", "2", "3", "4">>, <<"t", "e", "x", "t", " ", "h", "e", "r", "e">>>>,
       <<<<"5", "6", "7", "8">>, <<"a", " ", "b", " ", "c", " ", "d", " ", "e", " ", "f">>>> >>

\* C6 as stated: on the grid [["1234","text here"],["5678","a b c d e f"]]
\* total_digits = 8, digits_perc = 8 / total_chars, cell_words_mean = 2.5
\* and is_table = false.
C6_ExampleNotATable ==
    (pc = "returned_features" /\ csv = C6Grid) =>
        /\ ~result.raised
        /\ Field("total_digits") = 8
        /\ Field("digits_perc").num * Field("total_chars") = 8 * Field("digits_perc").den
        /\ 2 * Field("cell_words_mean").num = 5 * Field("cell_words_mean").den
        /\ Field("is_table") = FALSE

\* C6 amended: on that grid total_digits = 8, total_chars = 28,
\* digits_perc = 8/28, cell_words_mean = 2.5, and is_table = true.
C6_ExampleIsATable ==
    (pc = "returned_features" /\ csv = C6Grid) =>
        /\ ~result.raised
        /\ Field("total_digits") = 8
        /\ Field("total_chars") = 28
        /\ Field("digits_perc").num * 28 = 8 * Field("digits_perc").den
        /\ 2 * Field("cell_words_mean").num = 5 * Field("cell_words_mean").den
        /\ Field("is_table") = TRUE

C6_Witness ==
    /\ pc = "returned_features"
    /\ csv = C6Grid
    /\ ~result.raised
    /\ Field("rows") = 2

\* The character at place p of c is a word character.
WordCharAt(c, p) == p \in 1..Len(c) /\ c[p] \in WordChars

\* The offset between places p and p + 1 of c is a word boundary.
WordBoundary(c, p) == WordCharAt(c, p) # WordCharAt(c, p + 1)

\* Two characters are equal, or equal up to letter case when fold is set.
SameChar(a, b, fold) ==
    \/ a = b
    \/ fold /\ \E k \in 1..Len(UpperSeq) : {a, b} = {UpperSeq[k], LowerSeq[k]}

\* The word occurs in cell at offset s with the boundaries asked for.
OccursAt(word, cell, s, case_sensitive, match_end) ==
    /\ s + Len(word) <= Len(cell)
    /\ \A k \in 1..Len(word) : SameChar(word[k], cell[s + k], ~case_sensitive)
    /\ WordBoundary(cell, s)
    /\ match_end => WordBoundary(cell, s + Len(word))

Occurs(word, cells, case_sensitive, match_end) ==
    \E c \in 1..Len(cells) : \E s \in 0..Len(cells[c]) :
        OccursAt(word, cells[c], s, case_sensitive, match_end)

Reverse(s) == [k \in 1..Len(s) |-> s[Len(s) + 1 - k]]

QueryIs(word, case_sensitive, match_end, cell) ==
    query = [word |-> word, case_sensitive |-> case_sensitive,
             match_end |-> match_end, cells |-> <<cell>>]

\* C7: is_word_in returns true exactly when some cell holds an occurrence
\* of the word that starts at a word boundary, ends at one when match_end
\* is set, compared ignoring letter case only when case_sensitive is not
\* set; the order of the cells does not matter, no cell gives false, and
\* the stated examples come out as stated.
C7_WordMatch ==
    pc = "returned_match" =>
        /\ result = Occurs(query.word, query.cells, query.case_sensitive, query.match_end)
        /\ result = is_word_in(query.word, Reverse(query.cells),
                               query.case_sensitive, query.match_end)
        /\ query.cells = <<>> => result = FALSE
        /\ QueryIs(<<"B", "P">>, TRUE, TRUE, <<"1", "2", "0", "0", "0", " ", "B", "P">>) => result = TRUE
        /\ QueryIs(<<"B", "P">>, TRUE, TRUE, <<"1", "2", "0", "0", "0", " ", "b", "p">>) => result = FALSE
        /\ QueryIs(<<"B", "P">>, TRUE, TRUE, <<"B", "P", "x">>) => result = FALSE
        /\ QueryIs(<<"a", "g", "e">>, FALSE, FALSE, <<"a", "g", "e", "s">>) => result = TRUE
        /\ QueryIs(<<"a", "g", "e">>, FALSE, FALSE, <<"A", "g", "e", ":">>) => result = TRUE

\* 'BP' with both flags set, found in the second cell after 'BPx' was not.
C7_Witness ==
    /\ pc = "returned_match"
    /\ query = [word |-> <<"B", "P">>, case_sensitive |-> TRUE, match_end |-> TRUE,
                cells |-> <<<<"B", "P", "x">>, <<"1", "2", "0", "0", "0", " ", "B", "P">>>>]
    /\ result = TRUE

\* The number of maximal runs of characters of D in c that are k long.
MaximalRuns(c, k, D) ==
    Cardinality({s \in 1..Len(c) :
        /\ s + k - 1 <= Len(c)
        /\ \A p \in s..(s + k - 1) : c[p] \in D
        /\ s = 1 \/ c[s - 1] \notin D
        /\ s + k - 1 = Len(c) \/ c[s + k] \notin D})

\* The same, summed over every field of the csv under test.
RunsInCsv(k, D) ==
    SumSeq([n \in 1..Len(Flatten(csv)) |-> MaximalRuns(Flatten(csv)[n], k, D)])

DigitCountsAre(D) ==
    /\ Field("digit_of_len_2") = RunsInCsv(2, D)
    /\ Field("digit_of_len_3") = RunsInCsv(3, D)
    /\ Field("digit_of_len_4") = RunsInCsv(4, D)
    /\ Field("digit_of_len_5") = RunsInCsv(5, D)

DigitExample ==
    csv = << <<<<"1", "2">>, <<"1", "2", "3", "4", "5">>, <<"7">>>> >> =>
        /\ Field("digit_of_len_2") = 1
        /\ Field("digit_of_len_3") = 0
        /\ Field("digit_of_len_4") = 0
        /\ Field("digit_of_len_5") = 1

\* C8 as stated: digit_of_len_k, k in 2..5, is the number of maximal runs
\* of ASCII digits of length exactly k over all cells; for the cells
\* ['12','12345','7'] the counts are 1, 0, 0, 1.
C8_AsciiDigitRuns ==
    FeaturesReturned => DigitCountsAre(AsciiDigits) /\ DigitExample

\* C8 amended: digit_of_len_k, k in 2..5, is the number of maximal runs of
\* decimal digits as \d matches them (the ASCII digits and every other
\* Unicode decimal digit) of length exactly k over all cells; shorter and
\* longer runs count nowhere; for ['12','12345','7'] the counts are 1, 0, 0, 1.
C8_DecimalDigitRuns ==
    FeaturesReturned => DigitCountsAre(DecimalDigits) /\ DigitExample

\* A grid with runs of 7, 2 and 3 digits in one cell and two runs of 3 in
\* the other: three runs of length 3, one of length 2, none of 4 or 5.
C8_Witness ==
    /\ FeaturesReturned
    /\ csv = << <<<<"1", "2", "3", "4", "5", "6", "7", " ", "8", "9", " ", "x", "1", "2", "3">>, <<"U+0663", "U+0664", "U+0663", " ", "1", "2", "U+0663">>>> >>
    /\ Field("digit_of_len_2") = 1
    /\ Field("digit_of_len_3") = 3
    /\ Field("digit_of_len_5") = 0

ExpectedKeys ==
    << "is_table",
       "columns", "rows", "cell_words_min", "cell_words_mean", "cell_words_max",
       "empty_cells", "total_words", "total_chars", "total_digits", "digits_perc",
       "w_ci_e_age", "w_ci_e_date", "w_ci_ne_year", "w_cs_e_BP", "w_cs_e_BC",
       "w_ci_e_ad", "w_cs_e_Ka", "w_ci_e_cal", "w_ci_ne_painting",
       "w_ci_ne_drawing", "w_ci_ne_engraving", "w_ci_ne_pictograph",
       "w_ci_ne_petroglyph", "w_cs_e_AMS", "w_ci_ne_uranium_serie",
       "w_ci_e_radiocarbon", "w_ci_e_rc14", "w_ci_e_charcoal", "w_ci_ne_pigment",
       "w_ci_ne_calcite", "w_ci_e_beeswax", "w_ci_e_varnish", "w_ci_ne_bone",
       "w_ci_ne_cave", "w_ci_ne_site",
       "digit_of_len_2", "digit_of_len_3", "digit_of_len_4", "digit_of_len_5" >>

\* C9: every record get_table_features returns has the same field names in
\* the same order: is_table, the ten structural fields, one boolean per
\* catalog entry in catalog order under 25 pairwise distinct names, then
\* digit_of_len_2 to digit_of_len_5.
C9_FieldOrder ==
    FeaturesReturned =>
        /\ Keys(result.value) = ExpectedKeys
        /\ Len(words) = 25
        /\ Cardinality({Keys(result.value)[k] : k \in 12..36}) = 25
        /\ \A k \in 12..36 : Field(ExpectedKeys[k]) \in BOOLEAN

\* A record whose Uranium-series, BP and site fields are set.
C9_Witness ==
    /\ FeaturesReturned
    /\ Field("w_ci_ne_uranium_serie") = TRUE
    /\ Field("w_cs_e_BP") = TRUE
    /\ Field("w_ci_ne_site") = TRUE

\* The longest record of the csv under test.
MaxRowLength == SeqMax([r \in 1..Len(csv) |-> Len(csv[r])])

\* C10: total_words, total_chars, total_digits and empty_cells are
\* non-negative integers with total_digits <= total_chars; when
\* total_chars > 0, digits_perc is total_digits / total_chars and lies in
\* [0, 1]; columns is the maximum row length and rows the row count.
C10_Counts ==
    FeaturesReturned =>
        /\ Field("total_words") \in Nat
        /\ Field("total_chars") \in Nat
        /\ Field("total_digits") \in Nat
        /\ Field("empty_cells") \in Nat
        /\ Field("total_digits") <= Field("total_chars")
        /\ Field("total_chars") > 0 =>
              /\ Field("digits_perc").num * Field("total_chars")
                    = Field("total_digits") * Field("digits_perc").den
              /\ Field("digits_perc").den > 0
              /\ 0 <= Field("digits_perc").num
              /\ Field("digits_perc").num <= Field("digits_perc").den
        /\ Field("columns") = MaxRowLength
        /\ Field("rows") = Len(csv)

\* A grid of more columns than rows with a short second record, digits in it.
C10_Witness ==
    /\ FeaturesReturned
    /\ Len(csv) = 2
    /\ Len(csv[1]) = 2
    /\ Len(csv[2]) = 1
    /\ Field("total_digits") > 0
    /\ Field("empty_cells") > 0


====
